---- MODULE Spec2Model ----
(***************************************************************************)
(* Model of the CRUCIBLE tool-calling loop: SimpleCrucible.chat / reset    *)
(* (demo_llm.py) and execute_tool (demo_tools.py).                         *)
(*                                                                         *)
(* Python values are modelled as follows.  A str is a TLA+ string; None is *)
(* the string "None".  A JSON number is carried as its lexeme ("465",      *)
(* "-11.2"): the code never computes with the numbers, it only passes them *)
(* on.  A dict is [type |-> "dict", items |-> function from keys to        *)
(* values]; the JSON value null decodes to [type |-> "null"].  A call that *)
(* may raise returns a record with a field "raised".                       *)
(***************************************************************************)
EXTENDS Integers, Sequences, FiniteSets, TLC

\* ------------------------------------------------------------------ bounds
\* chat calls allowed since construction or the last reset
MaxTurns == 2

\* ------------------------------------------------------- program constants
max_iterations == 3

system_prompt == "You are CRUCIBLE, a material science assistant"

FALLBACK == "I apologize, but I had trouble processing that request. Could you rephrase?"

\* ----------------------------------------------------------------- inputs
\* texts the user types and texts the model answers with
UserTexts == {"identify 465 610 -11.2", "what is Raman?"}

AssistantTexts == {"It is Ceria.", "Please give the formation energy."}

\* argument payloads the model can put in a call request
ARGS_FULL == "{\"peak_1\": 465, \"peak_2\": 610, \"formation_energy\": -11.2}"

ARGS_NO_FE == "{\"peak_1\": 465, \"peak_2\": 610}"

ARGS_NO_P2 == "{\"peak_1\": 465, \"formation_energy\": -11.2}"

ARGS_EMPTY == "{}"

ARGS_NULL == "null"

ARGS_INVALID == "{peak_1: 465"

ArgTexts == {ARGS_FULL, ARGS_NO_FE, ARGS_NO_P2, ARGS_EMPTY, ARGS_NULL, ARGS_INVALID}

ToolNames == {"identify_material", "lookup_spectrum"}

\* what the domain function does when it is called
DomainBehaviours == {"returns", "returns_unserializable", "raises"}

\* ------------------------------------------------------------- json.loads
\* json.loads(text): the decoded value, or JSONDecodeError
json_loads(text) ==
    CASE text = ARGS_FULL ->
           [raised |-> FALSE,
            value |-> [type |-> "dict",
                       items |-> [peak_1 |-> "465", peak_2 |-> "610",
                                  formation_energy |-> "-11.2"]]]
      [] text = ARGS_NO_FE ->
           [raised |-> FALSE,
            value |-> [type |-> "dict",
                       items |-> [peak_1 |-> "465", peak_2 |-> "610"]]]
      [] text = ARGS_NO_P2 ->
           [raised |-> FALSE,
            value |-> [type |-> "dict",
                       items |-> [peak_1 |-> "465", formation_energy |-> "-11.2"]]]
      [] text = ARGS_EMPTY ->
           [raised |-> FALSE, value |-> [type |-> "dict", items |-> <<>>]]
      [] text = ARGS_NULL ->
           [raised |-> FALSE, value |-> [type |-> "null"]]
      [] OTHER ->
           [raised |-> TRUE, exception |-> "JSONDecodeError"]

\* subscript written as arguments.get(key): a missing key gives None
subscript_get(arguments, key) ==
    IF arguments.type # "dict"
    THEN [raised |-> TRUE, error |-> "'NoneType' object is not subscriptable"]
    ELSE IF key \notin DOMAIN arguments.items
         THEN [raised |-> FALSE, value |-> "None"]
         ELSE [raised |-> FALSE, value |-> arguments.items[key]]

\* arguments[key]: the value, KeyError (str(e) is the quoted key) or TypeError
subscript(arguments, key) ==
    IF arguments.type # "dict"
    THEN [raised |-> TRUE, error |-> "'NoneType' object is not subscriptable"]
    ELSE IF key \notin DOMAIN arguments.items
         THEN [raised |-> TRUE, error |-> "'" \o key \o "'"]
         ELSE [raised |-> FALSE, value |-> arguments.items[key]]

\* ------------------------------------------------------ the domain function
\* tools.identify_material(peak_1, peak_2, formation_energy): opaque; it
\* returns a value determined by its three inputs, or fails
identify_material(peak_1, peak_2, formation_energy, behaviour) ==
    IF behaviour = "raises"
    THEN [raised |-> TRUE, error |-> "No material matches the given peaks"]
    ELSE [raised |-> FALSE,
          value |-> [repr |-> "material(" \o peak_1 \o ", " \o peak_2 \o ", "
                                \o formation_energy \o ")",
                     serializable |-> (behaviour = "returns")]]

\* ------------------------------------------------------------- json.dumps
\* json.dumps({"success": True, "result": result}): TypeError when the
\* result is not a JSON value
dumps_success(result) ==
    IF result.serializable
    THEN [raised |-> FALSE,
          text |-> "{\"success\": true, \"result\": \"" \o result.repr \o "\"}"]
    ELSE [raised |-> TRUE, error |-> "Object is not JSON serializable"]

\* json.dumps({"success": False, "error": error})
dumps_failure(error) ==
    "{\"success\": false, \"error\": \"" \o error \o "\"}"

\* ----------------------------------------------------------- execute_tool
\* execute_tool with peak_1 and peak_2 passed in the wrong order
execute_tool_swapped(tool_name, arguments, behaviour) ==
    IF tool_name = "identify_material"
    THEN LET p1 == subscript(arguments, "peak_1")
             p2 == subscript(arguments, "peak_2")
             fe == subscript(arguments, "formation_energy")
         IN  IF p1.raised
             THEN [content |-> dumps_failure(p1.error), called |-> <<>>]
             ELSE IF p2.raised
             THEN [content |-> dumps_failure(p2.error), called |-> <<>>]
             ELSE IF fe.raised
             THEN [content |-> dumps_failure(fe.error), called |-> <<>>]
             ELSE LET result == identify_material(p2.value, p1.value, fe.value, behaviour)
                      passed == << <<p2.value, p1.value, fe.value>> >>
                  IN  IF result.raised
                      THEN [content |-> dumps_failure(result.error), called |-> passed]
                      ELSE LET dumped == dumps_success(result.value)
                           IN  IF dumped.raised
                               THEN [content |-> dumps_failure(dumped.error),
                                     called |-> passed]
                               ELSE [content |-> dumped.text, called |-> passed]
    ELSE [content |-> dumps_failure("Unknown tool: " \o tool_name), called |-> <<>>]

\* execute_tool without the test of the tool name
execute_tool_any_name(tool_name, arguments, behaviour) ==
    LET p1 == subscript(arguments, "peak_1")
        p2 == subscript(arguments, "peak_2")
        fe == subscript(arguments, "formation_energy")
    IN  IF p1.raised
        THEN [content |-> dumps_failure(p1.error), called |-> <<>>]
        ELSE IF p2.raised
        THEN [content |-> dumps_failure(p2.error), called |-> <<>>]
        ELSE IF fe.raised
        THEN [content |-> dumps_failure(fe.error), called |-> <<>>]
        ELSE LET result == identify_material(p1.value, p2.value, fe.value, behaviour)
                 passed == << <<p1.value, p2.value, fe.value>> >>
             IN  IF result.raised
                 THEN [content |-> dumps_failure(result.error), called |-> passed]
                 ELSE LET dumped == dumps_success(result.value)
                      IN  IF dumped.raised
                          THEN [content |-> dumps_failure(dumped.error),
                                called |-> passed]
                          ELSE [content |-> dumped.text, called |-> passed]

\* execute_tool(tool_name, arguments): the text of the envelope, and whether
\* and with what the domain function was called.  The three subscripts are
\* evaluated in the order of the call's positional arguments; the first that
\* fails, a failure of the domain call and a failure of json.dumps all end in
\* the except branch.
execute_tool(tool_name, arguments, behaviour) ==
    IF tool_name = "identify_material"
    THEN LET p1 == subscript(arguments, "peak_1")
             p2 == subscript(arguments, "peak_2")
             fe == subscript(arguments, "formation_energy")
         IN  IF p1.raised
             THEN [content |-> dumps_failure(p1.error), called |-> <<>>]
             ELSE IF p2.raised
             THEN [content |-> dumps_failure(p2.error), called |-> <<>>]
             ELSE IF fe.raised
             THEN [content |-> dumps_failure(fe.error), called |-> <<>>]
             ELSE LET result == identify_material(p1.value, p2.value, fe.value, behaviour)
                      passed == << <<p1.value, p2.value, fe.value>> >>
                  IN  IF result.raised
                      THEN [content |-> dumps_failure(result.error), called |-> passed]
                      ELSE LET dumped == dumps_success(result.value)
                           IN  IF dumped.raised
                               THEN [content |-> dumps_failure(dumped.error),
                                     called |-> passed]
                               ELSE [content |-> dumped.text, called |-> passed]
    ELSE [content |-> dumps_failure("Unknown tool: " \o tool_name), called |-> <<>>]

\* ------------------------------------------------------ the model's replies
ToolCall(id, name, arguments) ==
    [id |-> id, function |-> [name |-> name, arguments |-> arguments]]

\* call requests the model makes first in a response
FirstCalls ==
    {ToolCall("call_1", "identify_material", a) : a \in ArgTexts}
    \cup {ToolCall("call_1", "lookup_spectrum", a) : a \in {ARGS_FULL, ARGS_NULL}}

\* call requests the model adds after the first
OtherCalls ==
    {ToolCall("call_2", "identify_material", ARGS_FULL),
     ToolCall("call_2", "lookup_spectrum", ARGS_INVALID)}

\* response['choices'][0]['message'] of create_chat_completion: a text with
\* no tool_calls key, a text with an empty tool_calls list, or call requests
ModelMessages ==
    {[role |-> "assistant", content |-> t] : t \in AssistantTexts}
    \cup {[role |-> "assistant", content |-> t, tool_calls |-> <<>>] :
             t \in {"It is Ceria."}}
    \cup {[role |-> "assistant", content |-> "None", tool_calls |-> <<c>>] :
             c \in FirstCalls}
    \cup {[role |-> "assistant", content |-> "None", tool_calls |-> <<c, d>>] :
             c \in {ToolCall("call_1", "identify_material", ARGS_FULL),
                    ToolCall("call_1", "identify_material", ARGS_INVALID)},
             d \in OtherCalls}

\* 'tool_calls' in message and message['tool_calls']
wants_tool(message) ==
    "tool_calls" \in DOMAIN message /\ message.tool_calls # <<>>

\* ------------------------------------------------------------------ state
VARIABLES
    history,      \* self.history
    messages,     \* the local list messages of chat; <<>> when no call is active
    pc,           \* "idle": no chat call active; "loop": at the head of the for loop
    iteration,    \* loop iterations completed in the active chat call
    returned,     \* how the last chat call ended: [kind, value]
    before,       \* self.history when the last chat call was entered
    sent,         \* messages argument of the last create_chat_completion
    response,     \* <<message>> of the last create_chat_completion, <<>> if none
    invocations,  \* create_chat_completion calls of the last chat call
    executions,   \* log of the execute_tool calls of the last chat call, each
                  \* with what the domain function did if it was called
    resolved,     \* chat calls since construction/reset that returned a model text
    exhausted,    \* chat calls since construction/reset that returned the fallback
    raised,       \* chat calls since construction/reset that raised
    last_op       \* the method called last: "init", "chat" or "reset"

vars == <<history, messages, pc, iteration, returned, before, sent, response,
          invocations, executions, resolved, exhausted, raised, last_op>>

NoReturn == [kind |-> "none", value |-> "None"]

\* SimpleCrucible.__init__
Init ==
    /\ history = <<>>
    /\ messages = <<>>
    /\ pc = "idle"
    /\ iteration = 0
    /\ returned = NoReturn
    /\ before = <<>>
    /\ sent = <<>>
    /\ response = <<>>
    /\ invocations = 0
    /\ executions = <<>>
    /\ resolved = 0
    /\ exhausted = 0
    /\ raised = 0
    /\ last_op = "init"

UserMessage(user_message) == [role |-> "user", content |-> user_message]

SystemMessage == [role |-> "system", content |-> system_prompt]

\* build_messages with the system message put last
build_messages_system_last(h) == h \o <<SystemMessage>>

\* [system] + self.history: a new list, not an alias of self.history
build_messages(h) == <<SystemMessage>> \o h

\* ChatStart assigning self.history = [user message] instead of appending
ChatStart_replaces(user_message) ==
    /\ pc = "idle"
    /\ resolved + exhausted + raised < MaxTurns
    /\ history' = <<UserMessage(user_message)>>
    /\ messages' = build_messages(history')
    /\ pc' = "loop"
    /\ iteration' = 0
    /\ returned' = NoReturn
    /\ before' = history
    /\ sent' = <<>>
    /\ response' = <<>>
    /\ invocations' = 0
    /\ executions' = <<>>
    /\ last_op' = "chat"
    /\ UNCHANGED <<resolved, exhausted, raised>>

\* ChatStart putting the user message in the local list only
ChatStart_local_user(user_message) ==
    /\ pc = "idle"
    /\ resolved + exhausted + raised < MaxTurns
    /\ history' = history
    /\ messages' = Append(build_messages(history), UserMessage(user_message))
    /\ pc' = "loop"
    /\ iteration' = 0
    /\ returned' = NoReturn
    /\ before' = history
    /\ sent' = <<>>
    /\ response' = <<>>
    /\ invocations' = 0
    /\ executions' = <<>>
    /\ last_op' = "chat"
    /\ UNCHANGED <<resolved, exhausted, raised>>

\* chat, from its entry to the head of the loop
ChatStart(user_message) ==
    /\ pc = "idle"
    /\ resolved + exhausted + raised < MaxTurns
    /\ history' = Append(history, UserMessage(user_message))
    /\ messages' = build_messages(history')
    /\ pc' = "loop"
    /\ iteration' = 0
    /\ returned' = NoReturn
    /\ before' = history
    /\ sent' = <<>>
    /\ response' = <<>>
    /\ invocations' = 0
    /\ executions' = <<>>
    /\ last_op' = "chat"
    /\ UNCHANGED <<resolved, exhausted, raised>>

\* call_messages with the tool message keyed by the tool's name
call_messages_keyed_by_name(tool_call, tool_result) ==
    << [role |-> "assistant", content |-> "None", tool_calls |-> <<tool_call>>],
       [role |-> "tool", tool_call_id |-> tool_call.function.name,
        content |-> tool_result] >>

\* call_messages without the tool message
call_messages_no_result(tool_call, tool_result) ==
    << [role |-> "assistant", content |-> "None", tool_calls |-> <<tool_call>>] >>

\* the two messages one tool round trip adds to the local list
call_messages(tool_call, tool_result) ==
    << [role |-> "assistant", content |-> "None", tool_calls |-> <<tool_call>>],
       [role |-> "tool", tool_call_id |-> tool_call.id, content |-> tool_result] >>

AssistantMessage(assistant_message) ==
    [role |-> "assistant", content |-> assistant_message]

\* Invoke passing the system message and self.history instead of the local list
Invoke_history_only(message) ==
    /\ pc = "loop"
    /\ iteration < max_iterations
    /\ sent' = build_messages(history)
    /\ response' = <<message>>
    /\ invocations' = invocations + 1

\* Invoke with the loop bound off by one
Invoke_off_by_one(message) ==
    /\ pc = "loop"
    /\ iteration <= max_iterations
    /\ sent' = messages
    /\ response' = <<message>>
    /\ invocations' = invocations + 1

\* create_chat_completion is called and returns message
Invoke(message) ==
    /\ pc = "loop"
    /\ iteration < max_iterations
    /\ sent' = messages
    /\ response' = <<message>>
    /\ invocations' = invocations + 1

\* leaving chat: the local list is dropped
Leave(kind, value) ==
    /\ pc' = "idle"
    /\ returned' = [kind |-> kind, value |-> value]
    /\ messages' = <<>>

\* the tool branch when json.loads raises: nothing catches it in chat
DecodeRaises(message) ==
    /\ Leave("raised", "JSONDecodeError")
    /\ raised' = raised + 1
    /\ UNCHANGED <<history, iteration, before, executions, resolved, exhausted, last_op>>

\* ToolBranch with the local list aliasing self.history (messages = self.history)
ToolBranch_aliased(message, arguments, behaviour) ==
    LET tool_call == message.tool_calls[1]
        tool_name == tool_call.function.name
        tool_result == execute_tool(tool_name, arguments, behaviour)
    IN  /\ messages' = messages \o call_messages(tool_call, tool_result.content)
        /\ history' = history \o call_messages(tool_call, tool_result.content)
        /\ executions' = Append(executions,
                                [call |-> tool_call, arguments |-> arguments,
                                 behaviour |-> IF tool_result.called = <<>>
                                               THEN "not_called" ELSE behaviour,
                                 content |-> tool_result.content,
                                 called |-> tool_result.called])
        /\ iteration' = iteration + 1
        /\ UNCHANGED <<pc, returned, before, resolved, exhausted, raised, last_op>>

\* the tool branch: first call request only, execute it, extend the local list
ToolBranch(message, arguments, behaviour) ==
    LET tool_call == message.tool_calls[1]
        tool_name == tool_call.function.name
        tool_result == execute_tool(tool_name, arguments, behaviour)
    IN  /\ messages' = messages \o call_messages(tool_call, tool_result.content)
        /\ executions' = Append(executions,
                                [call |-> tool_call, arguments |-> arguments,
                                 behaviour |-> IF tool_result.called = <<>>
                                               THEN "not_called" ELSE behaviour,
                                 content |-> tool_result.content,
                                 called |-> tool_result.called])
        /\ iteration' = iteration + 1
        /\ UNCHANGED <<history, pc, returned, before, resolved, exhausted, raised, last_op>>

\* FinalBranch returning the text without storing it in self.history
FinalBranch_uncommitted(message) ==
    LET assistant_message == message.content
    IN  /\ history' = history
        /\ Leave("returned", assistant_message)
        /\ resolved' = resolved + 1
        /\ UNCHANGED <<iteration, before, executions, exhausted, raised, last_op>>

\* the else branch: the text is the answer of the turn
FinalBranch(message) ==
    LET assistant_message == message.content
    IN  /\ history' = Append(history, AssistantMessage(assistant_message))
        /\ Leave("returned", assistant_message)
        /\ resolved' = resolved + 1
        /\ UNCHANGED <<iteration, before, executions, exhausted, raised, last_op>>

\* one iteration of the for loop in which the model returns
ModelResponds(message, behaviour) ==
    /\ Invoke(message)
    /\ IF wants_tool(message)
       THEN LET decoded == json_loads(message.tool_calls[1].function.arguments)
            IN  IF decoded.raised
                THEN DecodeRaises(message)
                ELSE ToolBranch(message, decoded.value, behaviour)
       ELSE FinalBranch(message)

\* ModelFails with the user message taken back from self.history
ModelFails_rolls_back ==
    /\ pc = "loop"
    /\ iteration < max_iterations
    /\ sent' = messages
    /\ response' = <<>>
    /\ invocations' = invocations + 1
    /\ Leave("raised", "ModelError")
    /\ raised' = raised + 1
    /\ history' = before
    /\ UNCHANGED <<iteration, before, executions, resolved, exhausted, last_op>>

\* one iteration of the for loop in which create_chat_completion raises
ModelFails ==
    /\ pc = "loop"
    /\ iteration < max_iterations
    /\ sent' = messages
    /\ response' = <<>>
    /\ invocations' = invocations + 1
    /\ Leave("raised", "ModelError")
    /\ raised' = raised + 1
    /\ UNCHANGED <<history, iteration, before, executions, resolved, exhausted, last_op>>

\* LoopExhausted with the fallback stored as the assistant's answer
LoopExhausted_commits ==
    /\ pc = "loop"
    /\ iteration >= max_iterations
    /\ Leave("returned", FALLBACK)
    /\ history' = Append(history, AssistantMessage(FALLBACK))
    /\ exhausted' = exhausted + 1
    /\ UNCHANGED <<iteration, before, sent, response, invocations,
                   executions, resolved, raised, last_op>>

\* the loop ran max_iterations times: the fallback is returned
LoopExhausted ==
    /\ pc = "loop"
    /\ iteration >= max_iterations
    /\ Leave("returned", FALLBACK)
    /\ exhausted' = exhausted + 1
    /\ UNCHANGED <<history, iteration, before, sent, response, invocations,
                   executions, resolved, raised, last_op>>

\* reset assigning a local name instead of self.history
Reset_local ==
    /\ pc = "idle"
    /\ last_op' = "reset"
    /\ resolved' = 0
    /\ exhausted' = 0
    /\ raised' = 0
    /\ UNCHANGED <<history, messages, pc, iteration, returned, before, sent,
                   response, invocations, executions>>

\* SimpleCrucible.reset; main calls it between chat calls only
Reset ==
    /\ pc = "idle"
    /\ history' = <<>>
    /\ last_op' = "reset"
    /\ resolved' = 0
    /\ exhausted' = 0
    /\ raised' = 0
    /\ UNCHANGED <<messages, pc, iteration, returned, before, sent, response,
                   invocations, executions>>

Next ==
    \/ \E user_message \in UserTexts : ChatStart(user_message)
    \/ \E message \in ModelMessages, behaviour \in DomainBehaviours :
          ModelResponds(message, behaviour)
    \/ ModelFails
    \/ LoopExhausted
    \/ Reset

Spec == Init /\ [][Next]_vars

\* ------------------------------------------------------------- properties
\* error texts an envelope can carry
ErrorTexts ==
    {"'peak_1'", "'peak_2'", "'formation_energy'",
     "'NoneType' object is not subscriptable",
     "No material matches the given peaks",
     "Object is not JSON serializable",
     "JSONDecodeError"}
    \cup {"Unknown tool: " \o n : n \in ToolNames}

\* the text is an envelope with success=false and an error text
IsFailedEnvelope(text) == \E e \in ErrorTexts : text = dumps_failure(e)

\* the text is the envelope with success=true around the domain function's
\* value for the three inputs in the order peak_1, peak_2, formation_energy
IsSucceededEnvelope(text, items) ==
    text = "{\"success\": true, \"result\": \""
           \o identify_material(items.peak_1, items.peak_2,
                                items.formation_energy, "returns").value.repr
           \o "\"}"

RequiredArguments == {"peak_1", "peak_2", "formation_energy"}

\* the decoded arguments lack a required argument
Missing(arguments) ==
    \/ arguments.type # "dict"
    \/ ~(RequiredArguments \subseteq DOMAIN arguments.items)

\* h is h0 followed by exactly one user message
PlusUser(h0, h) ==
    /\ Len(h) = Len(h0) + 1
    /\ SubSeq(h, 1, Len(h0)) = h0
    /\ DOMAIN h[Len(h)] = {"role", "content"}
    /\ h[Len(h)].role = "user"

\* the last create_chat_completion returned call requests
Requested == response # <<>> /\ wants_tool(response[1])

\* C1: with no reset and no raising call since the history was empty, the
\* length of the history after the calls is twice the number of turns that
\* ended with a model text plus the number of turns that ended in exhaustion.
C1_HistoryLength ==
    (pc = "idle" /\ raised = 0) => Len(history) = 2 * resolved + exhausted

C1_Witness ==
    pc = "idle" /\ raised = 0 /\ resolved = 1 /\ exhausted = 1

\* C2: when the argument payload of the call request does not decode, chat
\* does not raise; the turn session ends with a tool message carrying a
\* failed envelope and the loop goes on.
C2_DecodeFailureSurfaced ==
    (/\ last_op = "chat"
     /\ Requested
     /\ json_loads(response[1].tool_calls[1].function.arguments).raised)
    => /\ returned.kind # "raised"
       /\ pc = "loop" =>
            /\ Len(messages) >= 1
            /\ messages[Len(messages)].role = "tool"
            /\ IsFailedEnvelope(messages[Len(messages)].content)

\* C3: a chat call in which the model requested a call at each of the 3
\* iterations returns the fallback string, and the history is the history
\* before the call plus the one user message.
C3_ExhaustionFallback ==
    (/\ pc = "idle"
     /\ last_op = "chat"
     /\ invocations = max_iterations
     /\ Requested)
    => /\ returned = [kind |-> "returned", value |-> FALLBACK]
       /\ PlusUser(before, history)

\* C4: a chat call invokes the model at most 3 times and executes the tool
\* at most 3 times.
C4_BoundedRoundTrips ==
    invocations <= 3 /\ Len(executions) <= 3

C4_Witness ==
    invocations = 3 /\ Len(executions) = 3

\* C5: a tool execution that fails for a missing argument or a failing domain
\* function leaves chat running: the step appends the assistant call message
\* and a tool message with a failed envelope to the turn session, leaves the
\* history as it is and moves to the next iteration; after the 3rd iteration
\* the only way on is the return of the fallback.
C5_ToolFailureContinues ==
    [][ /\ (/\ Len(executions') = Len(executions) + 1
            /\ LET e == executions'[Len(executions')]
               IN  /\ e.call.function.name = "identify_material"
                   /\ (Missing(e.arguments) \/ e.behaviour = "raises"))
           => LET e == executions'[Len(executions')]
              IN  /\ pc' = "loop"
                  /\ returned' = NoReturn
                  /\ history' = history
                  /\ iteration' = iteration + 1
                  /\ IsFailedEnvelope(e.content)
                  /\ messages' = messages \o
                       << [role |-> "assistant", content |-> "None",
                           tool_calls |-> <<e.call>>],
                          [role |-> "tool", tool_call_id |-> e.call.id,
                           content |-> e.content] >>
        /\ (pc = "loop" /\ iteration = max_iterations)
           => (pc' = "idle" /\ returned' = [kind |-> "returned", value |-> FALLBACK])
      ]_vars

C5_Witness ==
    /\ pc = "loop"
    /\ iteration = max_iterations
    /\ \E i \in 1..Len(executions) : Missing(executions[i].arguments)
    /\ executions[Len(executions)].behaviour = "raises"

\* C6: when the model invocation fails, chat raises and the history is the
\* history before the call plus the one user message.
C6_ModelFailurePropagates ==
    (last_op = "chat" /\ returned = [kind |-> "raised", value |-> "ModelError"])
    => (pc = "idle" /\ PlusUser(before, history))

C6_Witness ==
    /\ last_op = "chat"
    /\ returned = [kind |-> "raised", value |-> "ModelError"]
    /\ invocations = 3
    /\ Len(executions) = 2

\* C7: the history holds only plain user and assistant messages, and in any
\* message sequence sent to the model the tool exchanges lie after the
\* system message, the history before the call and the new user message,
\* that is, they belong to the current turn.
C7_HistoryRoles ==
    /\ \A i \in 1..Len(history) :
          /\ DOMAIN history[i] = {"role", "content"}
          /\ history[i].role \in {"user", "assistant"}
    /\ \A i \in 1..Len(sent) :
          (sent[i].role = "tool" \/ "tool_calls" \in DOMAIN sent[i])
          => i > Len(before) + 2

C7_Witness ==
    /\ Len(before) = 2
    /\ invocations = 2
    /\ Len(executions) = 1
    /\ Len(sent) = 6

\* C8: after reset the history is empty, whatever happened before.
C8_ResetEmpties ==
    last_op = "reset" => history = <<>>

C8_Witness ==
    /\ last_op = "reset"
    /\ before # <<>>
    /\ returned = [kind |-> "raised", value |-> "ModelError"]

\* C9: a model response with two or more call requests leads to exactly one
\* tool execution, of the first request; the turn session grows by the
\* assistant message with that request only and the tool message keyed by
\* its identifier.
C9_FirstCallOnly ==
    [][ (/\ invocations' = invocations + 1
         /\ response' # <<>>
         /\ wants_tool(response'[1])
         /\ Len(response'[1].tool_calls) >= 2)
        => LET first == response'[1].tool_calls[1]
           IN  /\ Len(executions') = Len(executions) + 1
               /\ executions'[Len(executions')].call = first
               /\ messages' = messages \o
                    << [role |-> "assistant", content |-> "None",
                        tool_calls |-> <<first>>],
                       [role |-> "tool", tool_call_id |-> first.id,
                        content |-> executions'[Len(executions')].content] >>
      ]_vars

\* C10 as stated: the envelope of an execution is the succeeded envelope
\* around identify_material(peak_1, peak_2, formation_energy) exactly when
\* the name is identify_material, the three arguments are present and the
\* domain call returned; otherwise it is a failed envelope.
C10_EnvelopeAsStated ==
    \A i \in 1..Len(executions) :
       LET e == executions[i]
       IN  IF /\ e.call.function.name = "identify_material"
              /\ ~Missing(e.arguments)
              /\ e.behaviour \in {"returns", "returns_unserializable"}
           THEN /\ IsSucceededEnvelope(e.content, e.arguments.items)
                /\ ~IsFailedEnvelope(e.content)
           ELSE IsFailedEnvelope(e.content)

\* C10: the envelope of an execution is the succeeded envelope around
\* identify_material(peak_1, peak_2, formation_energy) exactly when the name
\* is identify_material, the three arguments are present and the domain call
\* returned a value that json.dumps encodes; otherwise it is a failed
\* envelope.
C10_Envelope ==
    \A i \in 1..Len(executions) :
       LET e == executions[i]
       IN  IF /\ e.call.function.name = "identify_material"
              /\ ~Missing(e.arguments)
              /\ e.behaviour = "returns"
           THEN /\ IsSucceededEnvelope(e.content, e.arguments.items)
                /\ ~IsFailedEnvelope(e.content)
                /\ e.called = << <<e.arguments.items.peak_1,
                                   e.arguments.items.peak_2,
                                   e.arguments.items.formation_energy>> >>
           ELSE IsFailedEnvelope(e.content)

C10_Witness ==
    /\ Len(executions) = 3
    /\ executions[1].behaviour = "returns"
    /\ executions[2].behaviour = "returns_unserializable"
    /\ executions[3].call.function.name = "lookup_spectrum"

\* C11: an execution for a tool name other than identify_material gives the
\* failed envelope with the error text "Unknown tool: " followed by the name,
\* and the domain function is not called, whatever the arguments are.
C11_UnknownTool ==
    \A i \in 1..Len(executions) :
       LET e == executions[i]
           name == e.call.function.name
       IN  name # "identify_material"
           => /\ e.content = "{\"success\": false, \"error\": \"Unknown tool: "
                             \o name \o "\"}"
              /\ e.called = <<>>
              /\ e.behaviour = "not_called"

C11_Witness ==
    /\ Len(executions) = 2
    /\ executions[1].call.function.name = "lookup_spectrum"
    /\ executions[1].arguments.type = "dict"
    /\ executions[2].call.function.name = "lookup_spectrum"
    /\ executions[2].arguments.type = "null"
    /\ pc = "loop"

\* the first required argument, in the order of the call, that the mapping lacks
FirstMissing(items) ==
    IF "peak_1" \notin DOMAIN items THEN "peak_1"
    ELSE IF "peak_2" \notin DOMAIN items THEN "peak_2"
    ELSE "formation_energy"

\* C12: an execution of identify_material with a mapping that lacks a
\* required argument gives the failed envelope whose error text is the quoted
\* name of the first missing argument (the text of the KeyError), and the
\* domain function is not called.
C12_MissingArgument ==
    \A i \in 1..Len(executions) :
       LET e == executions[i]
       IN  (/\ e.call.function.name = "identify_material"
            /\ e.arguments.type = "dict"
            /\ ~(RequiredArguments \subseteq DOMAIN e.arguments.items))
           => /\ e.content = "{\"success\": false, \"error\": \"'"
                             \o FirstMissing(e.arguments.items) \o "'\"}"
              /\ e.called = <<>>
              /\ e.behaviour = "not_called"

C12_Witness ==
    /\ Len(executions) = 3
    /\ executions[1].call.function.arguments = ARGS_NO_FE
    /\ executions[2].call.function.arguments = ARGS_NO_P2
    /\ executions[3].call.function.arguments = ARGS_EMPTY
    /\ \A i \in 1..3 : executions[i].call.function.name = "identify_material"

\* position in a turn session of the tool message of the j-th round trip
ToolPosition(j) == Len(before) + 2 + 2 * j

\* the j-th execution's call and envelope are in the sequence last passed to
\* the model, in the j-th round trip's place
FedBack(j) ==
    /\ Len(sent) >= ToolPosition(j)
    /\ sent[ToolPosition(j) - 1] =
          [role |-> "assistant", content |-> "None",
           tool_calls |-> <<executions[j].call>>]
    /\ sent[ToolPosition(j)] =
          [role |-> "tool", tool_call_id |-> executions[j].call.id,
           content |-> executions[j].content]

\* C13: a chat call in which every model invocation returned ends by
\* returning a text (the model's or the fallback); it does not raise.
C13_TurnEndsWithText ==
    (pc = "idle" /\ last_op = "chat" /\ response # <<>>)
    => returned.kind = "returned"

\* C14 as stated: when a chat call has ended, every envelope produced in it
\* was in the message sequence of a later model invocation of that call.
C14_EveryResultFedBack ==
    (pc = "idle" /\ last_op = "chat")
    => \A j \in 1..Len(executions) : j < invocations /\ FedBack(j)

\* C14: the envelope of every round trip before the last allowed iteration is
\* in the message sequence of the next model invocation of the call; the
\* envelope of the iteration that exhausts the loop is passed to no
\* invocation.
C14_ResultFedBack ==
    /\ \A j \in 1..Len(executions) : j < invocations => FedBack(j)
    /\ (pc = "idle" /\ last_op = "chat")
       => \A j \in 1..Len(executions) :
             /\ j < max_iterations => j < invocations
             /\ j = max_iterations => j = invocations

C14_Witness ==
    /\ pc = "idle"
    /\ last_op = "chat"
    /\ Len(executions) = 3
    /\ invocations = 3
    /\ returned.value = FALLBACK

\* C15: the message sequence passed at the i-th invocation of a chat call is
\* the system message, the history before the call, the new user message and
\* then the i-1 round trips so far, each an assistant call message followed
\* by its tool message, in the order made; the system message is first and
\* occurs once.
C15_SentSequence ==
    invocations >= 1
    => /\ Len(sent) = Len(before) + 2 + 2 * (invocations - 1)
       /\ sent[1] = SystemMessage
       /\ \A k \in 2..Len(sent) : sent[k].role # "system"
       /\ SubSeq(sent, 2, Len(before) + 1) = before
       /\ DOMAIN sent[Len(before) + 2] = {"role", "content"}
       /\ sent[Len(before) + 2].role = "user"
       /\ last_op = "chat" => sent[Len(before) + 2] = history[Len(before) + 1]
       /\ \A j \in 1..(invocations - 1) : FedBack(j)

C15_Witness ==
    /\ invocations = 3
    /\ Len(before) = 2
    /\ Len(sent) = 8
    /\ executions[1].call.function.name = "lookup_spectrum"
    /\ executions[2].call.function.name = "identify_material"

\* C16: in the turn session and in every sequence passed to the model, a
\* tool message directly follows an assistant message that carries exactly
\* the call request with the tool message's identifier, and an assistant
\* message that carries a call request is directly followed by its tool
\* message.
Paired(session) ==
    \A i \in 1..Len(session) :
       /\ session[i].role = "tool"
          => /\ i > 1
             /\ "tool_calls" \in DOMAIN session[i - 1]
             /\ session[i - 1].role = "assistant"
             /\ Len(session[i - 1].tool_calls) = 1
             /\ session[i - 1].tool_calls[1].id = session[i].tool_call_id
       /\ "tool_calls" \in DOMAIN session[i]
          => /\ i < Len(session)
             /\ session[i + 1].role = "tool"
             /\ session[i + 1].tool_call_id = session[i].tool_calls[1].id

C16_CallResultPairs ==
    Paired(messages) /\ Paired(sent)

C16_Witness ==
    /\ pc = "loop"
    /\ Len(messages) = Len(before) + 2 + 2 * 3
    /\ Len(response[1].tool_calls) = 2
    /\ messages[Len(messages)].tool_call_id = "call_1"

\* h0 is a prefix of h
IsPrefix(h0, h) ==
    Len(h0) <= Len(h) /\ SubSeq(h, 1, Len(h0)) = h0

\* C17: an iteration in which the model's response carries no call request
\* ends the chat call in that step with no tool execution; the history grows
\* by exactly one assistant message whose content is the response's text,
\* and that text is what chat returns.  Once the call has ended, no model
\* invocation or tool execution is added to it.
C17_FinalText ==
    [][ /\ (/\ invocations' = invocations + 1
            /\ response' # <<>>
            /\ ~wants_tool(response'[1]))
           => (/\ pc' = "idle"
               /\ executions' = executions
               /\ history' = Append(history, [role |-> "assistant",
                                              content |-> response'[1].content])
               /\ returned' = [kind |-> "returned", value |-> response'[1].content]
               /\ history'[Len(history')].content = returned'.value)
        /\ pc = "idle"
           => (invocations' \in {invocations, 0} /\ executions' \in {executions, <<>>})
      ]_vars

C17_Witness ==
    /\ pc = "idle"
    /\ last_op = "chat"
    /\ invocations = 3
    /\ response # <<>>
    /\ ~wants_tool(response[1])
    /\ history[Len(history)] = [role |-> "assistant", content |-> returned.value]
    /\ Len(history) = Len(before) + 2

\* C18: every step of a chat call keeps the history as a prefix of the new
\* history, a step that does not is a reset, and when a chat call has
\* ended, however it ended, the history before it is a prefix of the
\* history.
C18_AppendOnly ==
    /\ [][ /\ (pc = "loop" \/ pc' = "loop") => IsPrefix(history, history')
           /\ ~IsPrefix(history, history') => (pc = "idle" /\ last_op' = "reset")
         ]_vars
    /\ [](last_op = "chat" => IsPrefix(before, history))

C18_Witness ==
    /\ pc = "idle"
    /\ last_op = "chat"
    /\ Len(before) = 2
    /\ returned = [kind |-> "raised", value |-> "JSONDecodeError"]
    /\ Len(history) = 3

\* C19: in the history every assistant message directly follows a user
\* message, so the history does not start with an assistant message, holds no
\* two assistant messages in a row, and holds at most as many assistant as
\* user messages.
C19_AssistantFollowsUser ==
    /\ \A i \in 1..Len(history) :
          history[i].role = "assistant" => (i > 1 /\ history[i - 1].role = "user")
    /\ Cardinality({i \in 1..Len(history) : history[i].role = "assistant"})
       <= Cardinality({i \in 1..Len(history) : history[i].role = "user"})

C19_Witness ==
    /\ Len(history) = 3
    /\ history[1].role = "user"
    /\ history[2].role = "user"
    /\ history[3].role = "assistant"

====
